---- MODULE Spec2Model ----
(***************************************************************************)
(* sf::SoundRecorder (src/SFML/Audio/SoundRecorder.cpp): the capture       *)
(* lifecycle of recorder objects sharing the file-scope captureDevice      *)
(* pointer, each with its caller thread (start, stop, setDevice) and its   *)
(* capture thread (record, processCapturedSamples, cleanup).  Every read   *)
(* or write of captureDevice or m_isCapturing is a step of its own, so     *)
(* caller and capture threads interleave between them.                     *)
(***************************************************************************)
EXTENDS Integers, Sequences, FiniteSets, TLC

\* ------------------------------------------------------------------ bounds
MaxHandles == 2      \* capture handles the backend can have open at a time
MaxPolls == 2        \* iterations of the record() loop in one session
MaxAvail == 2        \* largest ALC_CAPTURE_SAMPLES count the backend reports

\* ------------------------------------------------------- program constants
NULL == 0
Ctrl == {1, 2}
Rates == {22050, 44100}
DefaultDevice == "default"
Names == {"", "mic"}
Extensions == {"ALC_EXT_CAPTURE", "ALC_EXT_capture"}
Handles == 1..MaxHandles
Counts == 0..MaxAvail

VARIABLES
    captureDevice,     \* the file-scope ALCdevice* (NULL or a handle)
    opened,            \* backend: handles opened and not yet closed
    owner,             \* backend: open handle -> recorder whose call opened it
    misuse,            \* backend: some call was given NULL or a closed handle
    m_deviceName, m_sampleRate, m_isCapturing, m_samples,
    m_thread,          \* position of each recorder's capture thread
    samplesAvailable,  \* the local of processCapturedSamples
    trace,             \* what each running capture thread did since its launch
    tracing,           \* whether `trace` is kept in this behaviour
    pc,                \* position of each recorder's caller
    sampleRate, name,  \* the argument of the call in progress
    log,               \* what the call in progress did; kept for one step after it returns
    outcome,           \* how a call ended; kept for one step after it returns
    race               \* start() calls that overlapped on an empty slot, and their results

backendVars == <<opened, owner, misuse>>
memberVars == <<m_deviceName, m_sampleRate, m_isCapturing, m_samples>>
threadVars == <<m_thread, samplesAvailable, trace>>
callVars == <<pc, sampleRate, name, log, outcome, race>>
vars == <<captureDevice, backendVars, memberVars, threadVars, callVars, tracing>>

StartPcs == {"start_slot", "start_open", "start_onStart", "start_capture", "start_launch"}

\* --------------------------------------------------------------- helpers
\* the capture extension is looked up under two spellings; `exts` are the
\* extensions the OpenAL device reports when asked
isAvailable(exts) ==
    ("ALC_EXT_CAPTURE" \in exts) \/ ("ALC_EXT_capture" \in exts)

getDefaultDevice == DefaultDevice

\* a backend call on `h`: NULL or a closed handle is a misuse of the API
Valid(h) == h \in opened

\* entries of recorder c's `trace` that are operation op
Ops(c, op) == SelectSeq(trace[c], LAMBDA e : e[1] = op)

\* entries of `log` that are calls of function fn
Calls(c, fn) == SelectSeq(log[c], LAMBDA e : e[1] = fn)

\* API calls are serialized across recorders when `serial`; a recorder's own
\* calls are always made one after the other
CanCall(c, serial) ==
    /\ pc[c] = "idle"
    /\ serial => \A d \in Ctrl : pc[d] = "idle"

Constructed ==
    /\ captureDevice = NULL
    /\ opened = {}
    /\ owner = [h \in Handles |-> 0]
    /\ misuse = FALSE
    /\ m_deviceName = [c \in Ctrl |-> getDefaultDevice]
    /\ m_sampleRate = [c \in Ctrl |-> 0]
    /\ m_isCapturing = [c \in Ctrl |-> FALSE]
    /\ m_samples = [c \in Ctrl |-> 0]
    /\ m_thread = [c \in Ctrl |-> "NotRunning"]
    /\ samplesAvailable = [c \in Ctrl |-> 0]
    /\ trace = [c \in Ctrl |-> << >>]
    /\ pc = [c \in Ctrl |-> "idle"]
    /\ sampleRate = [c \in Ctrl |-> 0]
    /\ name = [c \in Ctrl |-> ""]
    /\ log = [c \in Ctrl |-> << >>]
    /\ outcome = [c \in Ctrl |-> "None"]
    /\ race = [c \in Ctrl |-> "no"]

Init == Constructed /\ tracing = TRUE

\* the same program, observed without the capture threads' traces
InitUntraced == Constructed /\ tracing = FALSE

\* ------------------------------------------- bookkeeping of the observations
\* recorder c's call is at step p, ends with outcome o and has done `entries`
\* more; the calls that had returned before this step are forgotten
Call(c, p, o, entries) ==
    /\ pc' = [pc EXCEPT ![c] = p]
    /\ outcome' = [d \in Ctrl |-> IF d = c THEN o
                                   ELSE IF pc[d] = "idle" THEN "None" ELSE outcome[d]]
    /\ log' = [d \in Ctrl |-> IF d = c THEN (IF pc[c] = "idle" THEN << >> ELSE log[c]) \o entries
                               ELSE IF pc[d] = "idle" THEN << >> ELSE log[d]]
    /\ UNCHANGED tracing

\* the call of recorder c returns with outcome o
Return(c, o, entries) ==
    /\ Call(c, "idle", o, entries)
    /\ sampleRate' = [sampleRate EXCEPT ![c] = 0]
    /\ name' = [name EXCEPT ![c] = ""]
    /\ race' = [race EXCEPT ![c] = IF @ = "racing" THEN o ELSE @]

\* the call of recorder c goes on to step p
Goto(c, p, entries) ==
    /\ Call(c, p, "None", entries)
    /\ UNCHANGED <<sampleRate, name, race>>

\* a step of a capture thread: no call is at work
NoCall ==
    /\ outcome' = [d \in Ctrl |-> IF pc[d] = "idle" THEN "None" ELSE outcome[d]]
    /\ log' = [d \in Ctrl |-> IF pc[d] = "idle" THEN << >> ELSE log[d]]
    /\ UNCHANGED <<pc, sampleRate, name, race, tracing>>

Traced(c, op, n, r) ==
    trace' = IF tracing THEN [trace EXCEPT ![c] = Append(@, <<op, n, r>>)] ELSE trace

\* ------------------------------------------------------------ the backend
\* what alcCaptureOpenDevice can return: NULL, or the handle of a device that
\* is not open (handles are only ever compared, so the lowest stands for any)
OpenResults ==
    {NULL} \cup {h \in Handles \ opened : \A g \in Handles \ opened : h <= g}

\* captureDevice = alcCaptureOpenDevice(...) returning h to recorder c
alcCaptureOpenDevice(c, h) ==
    /\ captureDevice' = h
    /\ opened' = IF h # NULL THEN opened \cup {h} ELSE opened
    /\ owner' = IF h # NULL THEN [owner EXCEPT ![h] = c] ELSE owner
    /\ UNCHANGED misuse

\* alcCaptureStart, alcGetIntegerv, alcCaptureSamples, alcCaptureStop on
\* captureDevice
alcUse ==
    /\ misuse' = (misuse \/ ~Valid(captureDevice))
    /\ UNCHANGED <<opened, owner>>

\* alcCaptureCloseDevice(captureDevice)
alcCaptureCloseDevice ==
    /\ misuse' = (misuse \/ ~Valid(captureDevice))
    /\ opened' = opened \ {captureDevice}
    /\ owner' = [h \in Handles |-> IF h = captureDevice THEN 0 ELSE owner[h]]

\* m_thread.launch(): waits for the previous run of the thread, then runs
\* record() in a new one
Launch(c) ==
    /\ m_thread[c] = "NotRunning"
    /\ m_thread' = [m_thread EXCEPT ![c] = "loop"]
    /\ UNCHANGED <<samplesAvailable, trace>>

\* ------------------------------------------------------------ start()
\* a start() that never finds the slot occupied
SlotIgnored == FALSE

\* if (captureDevice): another capture is already running
SlotOccupied == captureDevice # NULL

\* a start() that goes on whatever onStart() returns
AlwaysAccepted(r) == TRUE

\* if (onStart()): the derived class lets the capture begin
StartAccepted(r) == r

\* a start() that stores the requested rate before it tests anything
start_call_StoresRate(c, rate, serial) ==
    /\ CanCall(c, serial)
    /\ \E exts \in SUBSET Extensions :
        LET overlap == /\ isAvailable(exts)
                       /\ captureDevice = NULL
                       /\ \E d \in Ctrl \ {c} : pc[d] \in StartPcs
        IN  /\ race' = [d \in Ctrl |->
                          IF overlap /\ (d = c \/ pc[d] \in StartPcs) THEN "racing"
                          ELSE IF d = c THEN "no" ELSE race[d]]
            /\ IF isAvailable(exts)
               THEN /\ Call(c, "start_slot", "None",
                            << <<"afterFailedReopen", outcome[c] = "ReopenFailed">>,
                               <<"isAvailable", TRUE>> >>)
                    /\ sampleRate' = [sampleRate EXCEPT ![c] = rate]
               ELSE /\ Call(c, "idle", "CaptureUnavailable", << <<"isAvailable", FALSE>> >>)
                    /\ UNCHANGED sampleRate
    /\ m_sampleRate' = [m_sampleRate EXCEPT ![c] = rate]
    /\ UNCHANGED <<captureDevice, backendVars, m_deviceName, m_isCapturing, m_samples,
                   threadVars, name>>

\* if (!isAvailable()) { err(); return false; }
start_call(c, rate, serial) ==
    /\ CanCall(c, serial)
    /\ \E exts \in SUBSET Extensions :
        LET overlap == /\ isAvailable(exts)
                       /\ captureDevice = NULL
                       /\ \E d \in Ctrl \ {c} : pc[d] \in StartPcs
        IN  /\ race' = [d \in Ctrl |->
                          IF overlap /\ (d = c \/ pc[d] \in StartPcs) THEN "racing"
                          ELSE IF d = c THEN "no" ELSE race[d]]
            /\ IF isAvailable(exts)
               THEN /\ Call(c, "start_slot", "None",
                            << <<"afterFailedReopen", outcome[c] = "ReopenFailed">>,
                               <<"isAvailable", TRUE>> >>)
                    /\ sampleRate' = [sampleRate EXCEPT ![c] = rate]
               ELSE /\ Call(c, "idle", "CaptureUnavailable", << <<"isAvailable", FALSE>> >>)
                    /\ UNCHANGED sampleRate
    /\ UNCHANGED <<captureDevice, backendVars, memberVars, threadVars, name>>

\* a start() that stores the requested rate before it gives up on a busy slot
start_slot_StoresRate(c) ==
    /\ pc[c] = "start_slot"
    /\ IF SlotOccupied
       THEN /\ Return(c, "DeviceBusy", << <<"captureDevice", TRUE>> >>)
            /\ m_sampleRate' = [m_sampleRate EXCEPT ![c] = sampleRate[c]]
       ELSE /\ Goto(c, "start_open", << <<"captureDevice", FALSE>> >>)
            /\ UNCHANGED m_sampleRate
    /\ UNCHANGED <<captureDevice, backendVars, m_deviceName, m_isCapturing, m_samples,
                   threadVars>>

\* if (captureDevice) { err(); return false; }
start_slot(c) ==
    /\ pc[c] = "start_slot"
    /\ IF SlotOccupied
       THEN Return(c, "DeviceBusy", << <<"captureDevice", TRUE>> >>)
       ELSE Goto(c, "start_open", << <<"captureDevice", FALSE>> >>)
    /\ UNCHANGED <<captureDevice, backendVars, memberVars, threadVars>>

start_open(c) ==
    /\ pc[c] = "start_open"
    /\ \E h \in OpenResults :
        LET entry == <<"alcCaptureOpenDevice", h # NULL, m_deviceName[c], sampleRate[c]>>
        IN  /\ alcCaptureOpenDevice(c, h)
            /\ IF h # NULL
               THEN Goto(c, "start_onStart", <<entry>>)
               ELSE Return(c, "DeviceOpenFailed", <<entry>>)
    /\ UNCHANGED <<memberVars, threadVars>>

\* a start() that closes the device and empties the slot when onStart() refuses
start_onStart_Closes(c) ==
    /\ pc[c] = "start_onStart"
    /\ m_samples' = [m_samples EXCEPT ![c] = 0]
    /\ m_sampleRate' = [m_sampleRate EXCEPT ![c] = sampleRate[c]]
    /\ \E r \in BOOLEAN :
        IF StartAccepted(r)
        THEN /\ Goto(c, "start_capture", << <<"onStart", r>> >>)
             /\ UNCHANGED <<captureDevice, backendVars>>
        ELSE /\ Return(c, "ConsumerAborted", << <<"onStart", r>> >>)
             /\ alcCaptureCloseDevice
             /\ captureDevice' = NULL
    /\ UNCHANGED <<m_deviceName, m_isCapturing, threadVars>>

\* m_samples.clear(); m_sampleRate = sampleRate; if (onStart()) ... return false;
start_onStart(c) ==
    /\ pc[c] = "start_onStart"
    /\ m_samples' = [m_samples EXCEPT ![c] = 0]
    /\ m_sampleRate' = [m_sampleRate EXCEPT ![c] = sampleRate[c]]
    /\ \E r \in BOOLEAN :
        IF StartAccepted(r)
        THEN Goto(c, "start_capture", << <<"onStart", r>> >>)
        ELSE Return(c, "ConsumerAborted", << <<"onStart", r>> >>)
    /\ UNCHANGED <<captureDevice, backendVars, m_deviceName, m_isCapturing, threadVars>>

start_capture(c) ==
    /\ pc[c] = "start_capture"
    /\ alcUse
    /\ m_isCapturing' = [m_isCapturing EXCEPT ![c] = TRUE]
    /\ Goto(c, "start_launch", << <<"alcCaptureStart", TRUE>> >>)
    /\ UNCHANGED <<captureDevice, m_deviceName, m_sampleRate, m_samples, threadVars>>

start_launch(c) ==
    /\ pc[c] = "start_launch"
    /\ Launch(c)
    /\ Return(c, "Started", << <<"m_thread.launch", TRUE>> >>)
    /\ UNCHANGED <<captureDevice, backendVars, memberVars>>

\* ------------------------------------------------------------- stop()
\* a wait() that returns while the thread still runs
NeverWaits(c) == TRUE

\* m_thread.wait() returns: the capture thread is not running
Joined(c) == m_thread[c] = "NotRunning"

stop_call(c, serial) ==
    /\ CanCall(c, serial)
    /\ m_isCapturing' = [m_isCapturing EXCEPT ![c] = FALSE]
    /\ Call(c, "stop_wait", "None", << <<"m_thread.wait", ~Joined(c)>> >>)
    /\ race' = [race EXCEPT ![c] = "no"]
    /\ UNCHANGED <<captureDevice, backendVars, m_deviceName, m_sampleRate, m_samples,
                   threadVars, sampleRate, name>>

stop_wait(c) ==
    /\ pc[c] = "stop_wait"
    /\ Joined(c)
    /\ Return(c, "Stopped", << <<"onStop", TRUE>> >>)
    /\ UNCHANGED <<captureDevice, backendVars, memberVars, threadVars>>

\* -------------------------------------------------------- setDevice()
\* a setDevice() that stores the name as given
Unresolved(n) == n

\* if (name.empty()) m_deviceName = getDefaultDevice(); else m_deviceName = name;
Resolved(n) == IF n = "" THEN getDefaultDevice ELSE n

\* a setDevice() that reopens the device whatever the state
AlwaysRestarting(c) == TRUE

\* if (m_isCapturing): the device is switched under a running capture
Restarting(c) == m_isCapturing[c]

setDevice_call(c, n, serial) ==
    /\ CanCall(c, serial)
    /\ m_deviceName' = [m_deviceName EXCEPT ![c] = Resolved(n)]
    /\ race' = [race EXCEPT ![c] = "no"]
    /\ IF Restarting(c)
       THEN /\ m_isCapturing' = [m_isCapturing EXCEPT ![c] = FALSE]
            /\ Call(c, "setDevice_wait", "None",
                    << <<"name.empty", n = "">>, <<"m_thread.wait", ~Joined(c)>> >>)
            /\ name' = [name EXCEPT ![c] = n]
       ELSE /\ Call(c, "idle", "DeviceSet", << <<"name.empty", n = "">> >>)
            /\ UNCHANGED <<name, m_isCapturing>>
    /\ UNCHANGED <<captureDevice, backendVars, m_sampleRate, m_samples, threadVars,
                   sampleRate>>

\* a setDevice() that reopens without waiting for the capture thread
setDevice_wait_NoJoin(c) ==
    /\ pc[c] = "setDevice_wait"
    /\ Goto(c, "setDevice_open", << >>)
    /\ UNCHANGED <<captureDevice, backendVars, memberVars, threadVars>>

\* m_thread.wait();
setDevice_wait(c) ==
    /\ pc[c] = "setDevice_wait"
    /\ Joined(c)
    /\ Goto(c, "setDevice_open", << >>)
    /\ UNCHANGED <<captureDevice, backendVars, memberVars, threadVars>>

setDevice_open(c) ==
    /\ pc[c] = "setDevice_open"
    /\ \E h \in OpenResults :
        LET entry == <<"alcCaptureOpenDevice", h # NULL, name[c], m_sampleRate[c]>>
        IN  /\ alcCaptureOpenDevice(c, h)
            /\ IF h # NULL
               THEN Goto(c, "setDevice_capture", <<entry>>)
               ELSE Goto(c, "setDevice_onStop", <<entry>>)
    /\ UNCHANGED <<memberVars, threadVars>>

\* a failed reopen that returns without notifying the derived class
setDevice_NoOnStop(c) ==
    /\ pc[c] = "setDevice_onStop"
    /\ Return(c, "ReopenFailed", << >>)
    /\ UNCHANGED <<captureDevice, backendVars, memberVars, threadVars>>

\* onStop(); err(); return false;
setDevice_onStop(c) ==
    /\ pc[c] = "setDevice_onStop"
    /\ Return(c, "ReopenFailed", << <<"onStop", TRUE>> >>)
    /\ UNCHANGED <<captureDevice, backendVars, memberVars, threadVars>>

setDevice_capture(c) ==
    /\ pc[c] = "setDevice_capture"
    /\ alcUse
    /\ m_isCapturing' = [m_isCapturing EXCEPT ![c] = TRUE]
    /\ Goto(c, "setDevice_launch", << <<"alcCaptureStart", TRUE>> >>)
    /\ UNCHANGED <<captureDevice, m_deviceName, m_sampleRate, m_samples, threadVars>>

setDevice_launch(c) ==
    /\ pc[c] = "setDevice_launch"
    /\ Launch(c)
    /\ Return(c, "Restarted", << <<"m_thread.launch", TRUE>> >>)
    /\ UNCHANGED <<captureDevice, backendVars, memberVars>>

\* ------------------------------------------- the capture thread: record()
LoopPolls(c) == Len(Ops(c, "poll"))

\* a record() whose loop never sees the stop request
NeverLeaves(c) == "poll"

\* a record() that returns without cleanup()
NoCleanup(c) == IF m_isCapturing[c] THEN "poll" ELSE "exit"

\* while (m_isCapturing) ... ; cleanup();
AfterTest(c) == IF m_isCapturing[c] THEN "poll" ELSE "cleanup"

record_loop(c) ==
    /\ m_thread[c] = "loop"
    /\ (tracing /\ m_isCapturing[c]) => LoopPolls(c) < MaxPolls
    /\ m_thread' = [m_thread EXCEPT ![c] = AfterTest(c)]
    /\ NoCall
    /\ UNCHANGED <<captureDevice, backendVars, memberVars, samplesAvailable, trace>>

\* a processCapturedSamples() that forwards empty polls too
AnyCount(n) == n >= 0

\* if (samplesAvailable > 0)
HasSamples(n) == n > 0

\* a processCapturedSamples() that ignores what onProcessSamples returns
HookIgnored(c, r) == m_isCapturing

\* if (!onProcessSamples(...)) m_isCapturing = false;
AfterHook(c, r) == IF r THEN m_isCapturing ELSE [m_isCapturing EXCEPT ![c] = FALSE]

\* processCapturedSamples(), first half: alcGetIntegerv(captureDevice,
\* ALC_CAPTURE_SAMPLES) reports n; with samples it goes on to `more`
Poll(c, more, done, counts) ==
    \E n \in counts :
        /\ samplesAvailable' = [samplesAvailable EXCEPT ![c] = n]
        /\ Traced(c, "poll", n, TRUE)
        /\ alcUse
        /\ m_thread' = [m_thread EXCEPT ![c] = IF HasSamples(n) THEN more ELSE done]
        /\ NoCall
        /\ UNCHANGED <<captureDevice, memberVars>>

\* processCapturedSamples(), second half: m_samples.resize, alcCaptureSamples,
\* onProcessSamples returning r
Forward(c, done) ==
    \E r \in BOOLEAN :
        /\ m_samples' = [m_samples EXCEPT ![c] = samplesAvailable[c]]
        /\ alcUse
        /\ Traced(c, "onProcessSamples", samplesAvailable[c], r)
        /\ m_isCapturing' = AfterHook(c, r)
        /\ samplesAvailable' = [samplesAvailable EXCEPT ![c] = 0]
        /\ m_thread' = [m_thread EXCEPT ![c] = done]
        /\ NoCall
        /\ UNCHANGED <<captureDevice, m_deviceName, m_sampleRate>>

record_poll(c, counts) ==
    /\ m_thread[c] = "poll"
    /\ Poll(c, "forward", "sleep", counts)

record_forward(c) ==
    /\ m_thread[c] = "forward"
    /\ Forward(c, "sleep")

record_sleep(c) ==
    /\ m_thread[c] = "sleep"
    /\ m_thread' = [m_thread EXCEPT ![c] = "loop"]
    /\ NoCall
    /\ UNCHANGED <<captureDevice, backendVars, memberVars, samplesAvailable, trace>>

\* ------------------------------------------------------------ cleanup()
cleanup_stop(c) ==
    /\ m_thread[c] = "cleanup"
    /\ alcUse
    /\ Traced(c, "alcCaptureStop", 0, TRUE)
    /\ m_thread' = [m_thread EXCEPT ![c] = "drain"]
    /\ NoCall
    /\ UNCHANGED <<captureDevice, memberVars, samplesAvailable>>

cleanup_poll(c, counts) ==
    /\ m_thread[c] = "drain"
    /\ Poll(c, "drain_forward", "close", counts)

\* a cleanup() that polls again after it has forwarded the drained samples
cleanup_forward_Repolls(c) ==
    /\ m_thread[c] = "drain_forward"
    /\ Forward(c, "drain")

cleanup_forward(c) ==
    /\ m_thread[c] = "drain_forward"
    /\ Forward(c, "close")

\* a cleanup() that leaves the device open
cleanup_close_Leaks(c) ==
    /\ m_thread[c] = "close"
    /\ Traced(c, "alcCaptureCloseDevice", 0, TRUE)
    /\ m_thread' = [m_thread EXCEPT ![c] = "release"]
    /\ NoCall
    /\ UNCHANGED <<captureDevice, backendVars, memberVars, samplesAvailable>>

cleanup_close(c) ==
    /\ m_thread[c] = "close"
    /\ alcCaptureCloseDevice
    /\ Traced(c, "alcCaptureCloseDevice", 0, TRUE)
    /\ m_thread' = [m_thread EXCEPT ![c] = "release"]
    /\ NoCall
    /\ UNCHANGED <<captureDevice, memberVars, samplesAvailable>>

cleanup_release(c) ==
    /\ m_thread[c] = "release"
    /\ captureDevice' = NULL
    /\ Traced(c, "release", 0, TRUE)
    /\ m_thread' = [m_thread EXCEPT ![c] = "exit"]
    /\ NoCall
    /\ UNCHANGED <<backendVars, memberVars, samplesAvailable>>

\* record() returns and the thread ends
record_exit(c) ==
    /\ m_thread[c] = "exit"
    /\ m_thread' = [m_thread EXCEPT ![c] = "NotRunning"]
    /\ trace' = [trace EXCEPT ![c] = << >>]
    /\ NoCall
    /\ UNCHANGED <<captureDevice, backendVars, memberVars, samplesAvailable>>

\* ------------------------------------------------------- specifications
Starting(c) ==
    \/ start_slot(c)
    \/ start_open(c)
    \/ start_onStart(c)
    \/ start_capture(c)
    \/ start_launch(c)

Caller(c) ==
    \/ Starting(c)
    \/ stop_wait(c)
    \/ setDevice_wait(c)
    \/ setDevice_open(c)
    \/ setDevice_onStop(c)
    \/ setDevice_capture(c)
    \/ setDevice_launch(c)

Thread(c, counts) ==
    \/ record_loop(c)
    \/ record_poll(c, counts)
    \/ record_forward(c)
    \/ record_sleep(c)
    \/ cleanup_stop(c)
    \/ cleanup_poll(c, counts)
    \/ cleanup_forward(c)
    \/ cleanup_close(c)
    \/ cleanup_release(c)
    \/ record_exit(c)

Api(c, serial, names) ==
    \/ \E rate \in Rates : start_call(c, rate, serial)
    \/ stop_call(c, serial)
    \/ \E n \in names : setDevice_call(c, n, serial)

\* the recorders in C are used, with these device names and sample counts
Step(C, serial, names, counts) ==
    \E c \in C : Api(c, serial, names) \/ Caller(c) \/ Thread(c, counts)

\* a program with one recorder
Next == Step({1}, TRUE, Names, Counts)

Spec == Init /\ [][Next]_vars

\* the program with one recorder, observed without the capture thread's trace
\* so that its loop runs for any number of iterations, under a scheduler that
\* lets a capture thread that can take a step take it in the end, and does
\* the same for a caller inside a call; whether another call is ever made is
\* up to the user
SpecLive ==
    /\ InitUntraced
    /\ [][Next]_vars
    /\ \A c \in {1} : WF_vars(Thread(c, Counts)) /\ WF_vars(Caller(c))

\* a program with two recorders whose API calls are serialized (the documented
\* caller obligation), observed without the capture threads' traces, so that
\* a capture loop runs for any number of iterations
NextShared == Step(Ctrl, TRUE, Names, Counts)

SpecShared == InitUntraced /\ [][NextShared]_vars

\* two new recorders whose start() calls are made concurrently from different
\* threads, with nothing serializing them, until each has opened a device
NextConc ==
    \E c \in Ctrl :
        \/ m_sampleRate[c] = 0 /\ \E rate \in Rates : start_call(c, rate, FALSE)
        \/ Starting(c)
        \/ Thread(c, {0, MaxAvail})

SpecConc == InitUntraced /\ [][NextConc]_vars

\* ------------------------------------------------------------------ claims
\* the call of recorder c that has just returned did fn, with result r
Did(c, fn, r) == \E i \in 1..Len(log[c]) : log[c][i][1] = fn /\ log[c][i][2] = r

\* the functions of the OpenAL backend among the entries of `log`
BackendFns == {"isAvailable", "alcCaptureOpenDevice", "alcCaptureStart"}
DeviceFns == {"alcCaptureOpenDevice", "alcCaptureStart"}

StartOutcomes ==
    {"Started", "CaptureUnavailable", "DeviceBusy", "DeviceOpenFailed", "ConsumerAborted"}

\* the value each outcome returns
ReturnsTrue(o) == o \in {"Started", "DeviceSet", "Restarted"}

Running == {"loop", "poll", "forward", "sleep", "cleanup", "drain", "drain_forward", "close"}

\* C1 (as stated): when start() returns, it returns true if and only if
\* isAvailable() was true and the slot was empty when start() looked at it.
C1_Original ==
    \A c \in Ctrl :
        outcome[c] \in StartOutcomes =>
            (ReturnsTrue(outcome[c]) <=>
                (Did(c, "isAvailable", TRUE) /\ Did(c, "captureDevice", FALSE)))

\* C1 (amended): when start() returns, it returns true if and only if
\* isAvailable() was true, the slot was empty when start() looked at it,
\* alcCaptureOpenDevice returned a handle and onStart() returned true.
C1_StartSucceedsIff ==
    \A c \in Ctrl :
        outcome[c] \in StartOutcomes =>
            (ReturnsTrue(outcome[c]) <=>
                /\ Did(c, "isAvailable", TRUE)
                /\ Did(c, "captureDevice", FALSE)
                /\ Did(c, "alcCaptureOpenDevice", TRUE)
                /\ Did(c, "onStart", TRUE))

\* a start() that found capture available and the slot empty, and still
\* returned false
C1_Witness ==
    \E c \in Ctrl :
        /\ outcome[c] = "ConsumerAborted"
        /\ Did(c, "isAvailable", TRUE)
        /\ Did(c, "captureDevice", FALSE)
        /\ Did(c, "alcCaptureOpenDevice", TRUE)
        /\ m_sampleRate[c] = 22050

\* C2: with the API calls serialized, at most one capture handle is open; an
\* open handle is the one in captureDevice, it was opened by one recorder, and
\* that recorder is the only one capturing or running a capture thread on it.
C2_OneOpenHandle ==
    /\ Cardinality(opened) <= 1
    /\ \A h \in opened :
        /\ captureDevice = h
        /\ owner[h] \in Ctrl
        /\ \A c \in Ctrl :
            (m_isCapturing[c] \/ m_thread[c] \in Running) => owner[h] = c

\* a second recorder was refused while the first one holds the open handle
C2_Witness ==
    \E c, d \in Ctrl :
        /\ c # d
        /\ opened = {captureDevice}
        /\ owner[captureDevice] = c
        /\ m_isCapturing[c]
        /\ outcome[d] = "DeviceBusy"

RaceResults == {"Started", "DeviceBusy"}

\* C3: of two start() calls that overlapped on an empty slot, with
\* the device opening and onStart accepting, exactly one returns true and the
\* other returns DeviceBusy.
C3_Original ==
    \A c, d \in Ctrl :
        (c # d /\ race[c] \in RaceResults /\ race[d] \in RaceResults) =>
            (race[c] = "Started") # (race[d] = "Started")

Entries(c) == 1..Len(trace[c])

\* where cleanup() began in the trace, or past its end if it has not
FirstStop(c) ==
    LET S == {i \in Entries(c) : trace[c][i][1] = "alcCaptureStop"}
    IN  IF S = {} THEN Len(trace[c]) + 1 ELSE CHOOSE i \in S : \A j \in S : i <= j

IsHook(c, i) == trace[c][i][1] = "onProcessSamples"
IsPoll(c, i) == trace[c][i][1] = "poll"

\* onProcessSamples returned false at entry i, inside the loop
Rejected(c, i) == IsHook(c, i) /\ ~trace[c][i][3] /\ i < FirstStop(c)

\* C5: once onProcessSamples has returned false in the loop, the loop polls
\* and forwards no more: later polls and hook calls come after cleanup() has
\* begun, and the hook is called at most once more.
C5_NoPollAfterReject ==
    \A c \in Ctrl : \A i \in Entries(c) :
        Rejected(c, i) =>
            /\ \A j \in Entries(c) :
                (j > i /\ (IsPoll(c, j) \/ IsHook(c, j))) => j > FirstStop(c)
            /\ Cardinality({j \in Entries(c) : j > i /\ IsHook(c, j)}) <= 1
            /\ m_thread[c] \notin {"poll", "forward"}

\* the hook returned false in the loop and was called once more by the drain
C5_Witness ==
    \E c \in Ctrl : \E i, j \in Entries(c) :
        /\ Rejected(c, i)
        /\ j > FirstStop(c)
        /\ IsHook(c, j)
        /\ m_thread[c] = "exit"

\* the steps of cleanup() in the trace, the drain's hook call left out
CleanupSteps(c) ==
    LET tail == SubSeq(trace[c], FirstStop(c), Len(trace[c]))
        steps == SelectSeq(tail, LAMBDA e : e[1] # "onProcessSamples")
    IN  [i \in 1..Len(steps) |-> steps[i][1]]

CleanupSequence == <<"alcCaptureStop", "poll", "alcCaptureCloseDevice", "release">>

\* how many steps of cleanup() a thread at position st has done
CleanupDone(st) ==
    CASE st = "drain" -> 1
      [] st \in {"drain_forward", "close"} -> 2
      [] st = "release" -> 3
      [] st = "exit" -> 4
      [] OTHER -> 0

\* C6: in every run of the capture thread the cleanup sequence (stop the
\* capture, one drain poll, close the device, release the slot) happens once,
\* in that order, and is complete when record() returns, however the run ended.
C6_CleanupOncePerLaunch ==
    \A c \in Ctrl :
        /\ CleanupSteps(c) = SubSeq(CleanupSequence, 1, CleanupDone(m_thread[c]))
        /\ \A i \in Entries(c) : i < FirstStop(c) => (IsPoll(c, i) \/ IsHook(c, i))
        /\ m_thread[c] = "NotRunning" => trace[c] = << >>

\* the hook asked for the stop, stop() was called as well, and the thread has
\* run its cleanup
C6_Witness ==
    \E c \in Ctrl : \E i \in Entries(c) :
        /\ Rejected(c, i)
        /\ pc[c] = "stop_wait"
        /\ m_thread[c] = "exit"
        /\ CleanupSteps(c) = CleanupSequence

PollCounts(c) == [i \in 1..Len(Ops(c, "poll")) |-> Ops(c, "poll")[i][2]]
HookCounts(c) ==
    [i \in 1..Len(Ops(c, "onProcessSamples")) |-> Ops(c, "onProcessSamples")[i][2]]

\* the counts the hook is owed: the non-zero polls, the last one left out
\* while its call is still to come
Owed(c) ==
    LET nonzero == SelectSeq(PollCounts(c), LAMBDA n : n > 0)
    IN  IF m_thread[c] \in {"forward", "drain_forward"}
        THEN SubSeq(nonzero, 1, Len(nonzero) - 1)
        ELSE nonzero

\* C7: onProcessSamples is called once for each poll that reports a count
\* above zero, right after it and with that count, and never for a poll that
\* reports zero; cleanup() polls exactly once between stopping the capture
\* and closing the device.
C7_HookPerNonZeroPoll ==
    \A c \in Ctrl :
        /\ HookCounts(c) = Owed(c)
        /\ \A i \in Entries(c) :
            IsHook(c, i) =>
                /\ trace[c][i][2] > 0
                /\ i > 1
                /\ IsPoll(c, i - 1)
                /\ trace[c][i - 1][2] = trace[c][i][2]
        /\ \A i \in Entries(c) :
            trace[c][i][1] = "alcCaptureCloseDevice" =>
                Cardinality({j \in Entries(c) : FirstStop(c) < j /\ j < i /\ IsPoll(c, j)}) = 1

\* polls of 2 and 0 in the loop and 1 in the drain: the hook got 2 and 1
C7_Witness ==
    \E c \in Ctrl :
        /\ m_thread[c] = "exit"
        /\ PollCounts(c) = <<2, 0, 1>>
        /\ HookCounts(c) = <<2, 1>>

NoDeviceCall(entries) == \A i \in 1..Len(entries) : entries[i][1] \notin DeviceFns
NoBackendCall(entries) == \A i \in 1..Len(entries) : entries[i][1] \notin BackendFns

\* C8: a setDevice() made while the recorder is not capturing returns true at
\* once, makes no call on the capture device and changes nothing but the
\* stored device name.
C8_SetDeviceIdle ==
    [][\A c \in Ctrl : \A n \in Names :
        (~m_isCapturing[c] /\ setDevice_call(c, n, TRUE)) =>
            /\ pc'[c] = "idle"
            /\ ReturnsTrue(outcome'[c])
            /\ NoDeviceCall(log'[c])
            /\ m_deviceName' = [m_deviceName EXCEPT ![c] = IF n = "" THEN DefaultDevice ELSE n]
            /\ UNCHANGED <<captureDevice, backendVars, m_sampleRate, m_isCapturing,
                           m_samples, threadVars>>]_vars

\* after a capture, the idle recorder was given another device
C8_Witness ==
    \E c \in Ctrl :
        /\ outcome[c] = "DeviceSet"
        /\ m_deviceName[c] = "mic"
        /\ m_sampleRate[c] = 44100
        /\ ~m_isCapturing[c]
        /\ captureDevice = NULL

\* C9: a setDevice() made while capturing whose reopen fails returns false,
\* leaves the recorder not capturing with no capture thread, and has called
\* onStop exactly once.
C9_ReopenFailure ==
    \A c \in Ctrl :
        outcome[c] = "ReopenFailed" =>
            /\ ~ReturnsTrue(outcome[c])
            /\ Did(c, "alcCaptureOpenDevice", FALSE)
            /\ ~m_isCapturing[c]
            /\ m_thread[c] = "NotRunning"
            /\ Len(Calls(c, "onStop")) = 1

\* setDevice() stopped a running capture thread, then failed to reopen
C9_Witness ==
    \E c \in Ctrl :
        /\ outcome[c] = "ReopenFailed"
        /\ Did(c, "m_thread.wait", TRUE)
        /\ m_deviceName[c] = "mic"

\* start() finds the slot occupied
FindsBusy(c) == pc[c] = "start_slot" /\ captureDevice # NULL /\ pc'[c] # "start_slot"

\* what a refused start() leaves alone
Untouched == UNCHANGED <<captureDevice, backendVars, memberVars, threadVars>>

\* C10 (as stated): a start() that finds the slot occupied returns false
\* having made no backend call at all, and leaves the slot, the state, the
\* stored rate and the buffer as they were.
C10_Original ==
    [][\A c \in Ctrl :
        FindsBusy(c) =>
            /\ pc'[c] = "idle"
            /\ ~ReturnsTrue(outcome'[c])
            /\ NoBackendCall(log'[c])
            /\ Untouched]_vars

\* C10 (amended): a start() that finds the slot occupied returns false having
\* made no backend call but the capability query of isAvailable(), which
\* comes before the test of the slot; it leaves the slot, the state, the
\* stored rate and the buffer as they were.
C10_BusyStartRefused ==
    [][\A c \in Ctrl :
        FindsBusy(c) =>
            /\ pc'[c] = "idle"
            /\ outcome'[c] = "DeviceBusy"
            /\ Did(c, "isAvailable", TRUE)
            /\ NoDeviceCall(log'[c])
            /\ Untouched]_vars

\* a recorder's start() was refused while the other recorder is capturing
\* on the handle in the slot
C10_Witness ==
    \E c, d \in Ctrl :
        /\ c # d
        /\ outcome[c] = "DeviceBusy"
        /\ Did(c, "isAvailable", TRUE)
        /\ m_isCapturing[d]
        /\ captureDevice # NULL
        /\ owner[captureDevice] = d

NoHookCall(entries) == \A i \in 1..Len(entries) : entries[i][1] \notin {"onStart", "onStop"}

\* a step of a stop() that was called on a recorder that is not capturing and
\* has no capture thread: its entry, or its return
IdleStop(c) ==
    \/ ~m_isCapturing[c] /\ Joined(c) /\ stop_call(c, TRUE)
    \/ pc[c] = "stop_wait" /\ Did(c, "m_thread.wait", FALSE) /\ pc'[c] = "idle"

\* C11: a stop() on a recorder that is not capturing and has no capture
\* thread makes no backend call, changes neither the recorder nor the slot,
\* and calls no hook.
C11_Original ==
    [][\A c \in Ctrl :
        IdleStop(c) =>
            /\ NoBackendCall(log'[c])
            /\ NoHookCall(log'[c])
            /\ Untouched]_vars

SetDeviceOutcomes == {"DeviceSet", "Restarted", "ReopenFailed"}

\* C12: when setDevice("") returns, whether the recorder was capturing or not
\* and whether or not the reopen succeeded, the stored device name is the
\* default device's.
C12_EmptyNameIsDefault ==
    \A c \in Ctrl :
        (outcome[c] \in SetDeviceOutcomes /\ Did(c, "name.empty", TRUE)) =>
            m_deviceName[c] = getDefaultDevice

\* setDevice("") on a capturing recorder whose reopen failed
C12_Witness ==
    \E c \in Ctrl :
        /\ outcome[c] = "ReopenFailed"
        /\ Did(c, "name.empty", TRUE)
        /\ m_deviceName[c] = DefaultDevice
        /\ m_sampleRate[c] = 22050

FailedStart == StartOutcomes \ {"Started"}

\* C13 (as stated): every start() that returns false leaves the recorder not
\* capturing, has launched no thread and has not started the capture; it left
\* the slot and the open handles alone unless onStart() refused, and then the
\* handle it opened is open and in the slot.
C13_Original ==
    [][\A c \in Ctrl :
        outcome'[c] \in FailedStart =>
            /\ ~m_isCapturing'[c]
            /\ ~Did(c, "alcCaptureStart", TRUE)'
            /\ ~Did(c, "m_thread.launch", TRUE)'
            /\ outcome'[c] # "ConsumerAborted" => UNCHANGED <<captureDevice, opened>>
            /\ outcome'[c] = "ConsumerAborted" =>
                /\ captureDevice' \in opened'
                /\ owner'[captureDevice'] = c]_vars

\* C13 (amended): a start() that returns false has not changed the
\* recorder's state, launched a thread or started the capture: the recorder
\* is not capturing afterwards unless it was capturing already, which only a
\* CaptureUnavailable or DeviceBusy start() can meet.  The slot and the open
\* handles are as above.
C13_FailedStartChangesNoState ==
    [][\A c \in Ctrl :
        outcome'[c] \in FailedStart =>
            /\ pc'[c] = "idle"
            /\ UNCHANGED <<m_isCapturing, m_thread>>
            /\ m_isCapturing'[c] => outcome'[c] \in {"CaptureUnavailable", "DeviceBusy"}
            /\ ~Did(c, "alcCaptureStart", TRUE)'
            /\ ~Did(c, "m_thread.launch", TRUE)'
            /\ outcome'[c] # "ConsumerAborted" => UNCHANGED <<captureDevice, opened>>
            /\ outcome'[c] = "ConsumerAborted" =>
                /\ captureDevice' \in opened'
                /\ captureDevice' = captureDevice
                /\ owner'[captureDevice'] = c
                /\ Did(c, "alcCaptureOpenDevice", TRUE)]_vars

\* onStart() refused: start() has returned false, the recorder is not
\* capturing and the handle it opened is in the slot
C13_Witness ==
    \E c \in Ctrl :
        /\ outcome[c] = "ConsumerAborted"
        /\ ~m_isCapturing[c]
        /\ m_thread[c] = "NotRunning"
        /\ captureDevice \in opened
        /\ owner[captureDevice] = c

\* what the thread did from alcCaptureStop on, the drain's hook call included
DrainOps(c) ==
    [i \in 1..(Len(trace[c]) + 1 - FirstStop(c)) |-> trace[c][FirstStop(c) + i - 1][1]]

DrainWithHook ==
    <<"alcCaptureStop", "poll", "onProcessSamples", "alcCaptureCloseDevice", "release">>
DrainWithoutHook == <<"alcCaptureStop", "poll", "alcCaptureCloseDevice", "release">>

IsPrefix(s, t) == Len(s) <= Len(t) /\ s = SubSeq(t, 1, Len(s))

Last(s) == s[Len(s)]

Draining == {"cleanup", "drain", "drain_forward", "close", "release"}

\* C14: once the thread has left its loop it stops the capture, polls once
\* and forwards what the poll reported, closes the device and clears the slot,
\* in that order; whatever the drain's hook call returns, the close follows
\* it, and nothing follows the close but the clearing of the slot.
C14_DrainOrder ==
    \A c \in Ctrl :
        /\ IsPrefix(DrainOps(c), DrainWithHook) \/ IsPrefix(DrainOps(c), DrainWithoutHook)
        /\ m_thread[c] \in Draining => ~m_isCapturing[c]
        /\ m_thread[c] = "cleanup" => DrainOps(c) = << >>
        /\ m_thread[c] = "drain" => DrainOps(c) = <<"alcCaptureStop">>
        /\ m_thread[c] = "drain_forward" => Last(DrainOps(c)) = "poll"
        /\ m_thread[c] = "close" => Last(DrainOps(c)) \in {"poll", "onProcessSamples"}
        /\ m_thread[c] = "release" => Last(DrainOps(c)) = "alcCaptureCloseDevice"
        /\ m_thread[c] = "exit" => Last(DrainOps(c)) = "release"

\* the drain's hook call returned false and the thread went on to close the
\* device and clear the slot
C14_Witness ==
    \E c \in Ctrl :
        /\ m_thread[c] = "exit"
        /\ DrainOps(c) = DrainWithHook
        /\ ~trace[c][FirstStop(c) + 2][3]
        /\ opened = {}

\* the call in progress opened a device under name n at rate r
Opened(c, n, r) ==
    \E i \in 1..Len(log[c]) :
        /\ log[c][i][1] = "alcCaptureOpenDevice"
        /\ log[c][i][2]
        /\ log[c][i][3] = n
        /\ log[c][i][4] = r

\* C15: a setDevice() on a capturing recorder whose reopen succeeds opens the
\* device only once the old thread has ended, cleanup included; it opens it
\* under the newly stored name at the stored rate, does not call onStop, and
\* returns true with the recorder capturing, a new thread running and the new
\* handle in the slot.
C15_Original ==
    \A c \in Ctrl :
        /\ pc[c] = "setDevice_open" => (m_thread[c] = "NotRunning" /\ trace[c] = << >>)
        /\ outcome[c] = "Restarted" =>
            /\ ReturnsTrue(outcome[c])
            /\ Opened(c, m_deviceName[c], m_sampleRate[c])
            /\ Calls(c, "onStop") = << >>
            /\ m_isCapturing[c]
            /\ m_thread[c] = "loop"
            /\ captureDevice \in opened
            /\ owner[captureDevice] = c

\* the start() that has just returned was called right after a setDevice()
\* that failed to reopen the device
AfterFailedReopen(c) == outcome[c] \in StartOutcomes /\ Did(c, "afterFailedReopen", TRUE)

\* C16 (as stated): after a setDevice() that failed to reopen, the slot is
\* empty and no handle is open, and the start() that follows, with capture
\* available and the open succeeding, returns true.
C16_Original ==
    \A c \in Ctrl :
        /\ outcome[c] = "ReopenFailed" => (captureDevice = NULL /\ opened = {})
        /\ (AfterFailedReopen(c) /\ Did(c, "isAvailable", TRUE)
                /\ ~Did(c, "alcCaptureOpenDevice", FALSE)) =>
            ReturnsTrue(outcome[c])

\* C16 (amended): after a setDevice() that failed to reopen, the slot is
\* empty and no handle is open; the start() that follows never finds the slot
\* occupied, and returns true when capture is available, the open succeeds
\* and onStart() returns true.
C16_NotBusyAfterFailedReopen ==
    \A c \in Ctrl :
        /\ outcome[c] = "ReopenFailed" => (captureDevice = NULL /\ opened = {})
        /\ AfterFailedReopen(c) =>
            /\ outcome[c] # "DeviceBusy"
            /\ Did(c, "captureDevice", FALSE)
            /\ (Did(c, "alcCaptureOpenDevice", TRUE) /\ Did(c, "onStart", TRUE)) =>
                ReturnsTrue(outcome[c])

\* the start() after the failed reopen has returned true
C16_Witness ==
    \E c \in Ctrl :
        /\ AfterFailedReopen(c)
        /\ outcome[c] = "Started"
        /\ m_deviceName[c] = "mic"
        /\ captureDevice \in opened

\* C17: between the calls made on it, a recorder is capturing whenever its
\* capture thread is still polling or draining, and is capturing only while
\* its capture thread runs.
C17_Original ==
    \A c \in Ctrl :
        pc[c] = "idle" =>
            /\ m_thread[c] \in Running \cup {"release"} => m_isCapturing[c]
            /\ m_isCapturing[c] => m_thread[c] \in Running

SetDevicePcs ==
    {"setDevice_wait", "setDevice_open", "setDevice_onStop", "setDevice_capture",
     "setDevice_launch"}

\* C18: no step of any call or thread changes the stored rate of a recorder
\* that is capturing, nor of one whose setDevice() is in progress, and the
\* reopen of a setDevice() restart is made at that rate.
C18_RateFixedWhileCapturing ==
    [][\A c \in Ctrl :
        /\ (m_isCapturing[c] \/ pc[c] \in SetDevicePcs) =>
            m_sampleRate'[c] = m_sampleRate[c]
        /\ (pc[c] = "setDevice_open" /\ pc'[c] # "setDevice_open") =>
            Last(log'[c])[4] = m_sampleRate[c]]_vars

\* a recorder started at 22050 has been restarted by setDevice() at 22050,
\* while the other recorder last ran at 44100
C18_Witness ==
    \E c, d \in Ctrl :
        /\ outcome[c] = "Restarted"
        /\ Opened(c, "mic", 22050)
        /\ m_sampleRate[c] = 22050
        /\ m_sampleRate[d] = 44100

\* the stop of a running capture thread has been requested
StopRequested(c) == m_thread[c] \in Running /\ ~m_isCapturing[c]

Blocked(c) == pc[c] \in {"stop_wait", "setDevice_wait"}

\* C19: once the stop of a running capture thread is requested, the thread
\* ends, the slot is cleared, and a caller waiting in stop() or setDevice()
\* returns.
C19_StopRequestTerminates ==
    \A c \in Ctrl :
        /\ StopRequested(c) ~> (m_thread[c] = "NotRunning")
        /\ StopRequested(c) ~> (captureDevice = NULL)
        /\ Blocked(c) ~> (pc[c] = "idle")

\* stop() is waiting for a thread that has closed the device and is about to
\* clear the slot
C19_Witness ==
    \E c \in Ctrl :
        /\ pc[c] = "stop_wait"
        /\ m_thread[c] = "release"
        /\ ~m_isCapturing[c]
        /\ opened = {}

\* positions at which the capture thread's next step is a backend call on
\* captureDevice: the poll, the pull, alcCaptureStop, alcCaptureCloseDevice
AtBackendCall == {"poll", "forward", "cleanup", "drain", "drain_forward", "close"}

\* C20: with the calls serialized, a capture thread that is about to poll,
\* pull, stop the capture or close finds in the slot a handle that is open
\* and was opened by its own recorder; no backend call was ever given NULL or
\* a closed handle, so no handle was closed twice.
C20_ThreadUsesOwnOpenHandle ==
    /\ ~misuse
    /\ \A c \in Ctrl :
        m_thread[c] \in AtBackendCall =>
            /\ captureDevice # NULL
            /\ Valid(captureDevice)
            /\ owner[captureDevice] = c

\* one recorder's thread is about to close its handle after the other
\* recorder's session has come and gone
C20_Witness ==
    \E c, d \in Ctrl :
        /\ c # d
        /\ m_thread[c] = "close"
        /\ owner[captureDevice] = c
        /\ m_sampleRate[d] # 0
        /\ m_samples[d] # 0
        /\ m_thread[d] = "NotRunning"
====
